---- MODULE Spec2Model ----
(***************************************************************************)
(* Model of the IPFS MCP server (src/ipfs_mcp_server.py): the registry     *)
(* known_cids and the four request handlers registered by setup_handlers,  *)
(* run as concurrent asyncio tasks that interleave at their await points   *)
(* (the gateway GET and the resource_list_changed notification), and main  *)
(* around them: run(), its except clauses and the cleanup in finally.      *)
(***************************************************************************)
EXTENDS Integers, Sequences, FiniteSets, TLC

\* ------------------------------------------------------------------ bounds
\* number of handler tasks that may be in flight at once
NumTasks == 2
\* total number of requests the orchestrator sends in one behaviour
MaxCalls == 2

\* ------------------------------------------------------- program constants
IPFS_GATEWAY == "https://ipfs.io/ipfs/"
\* the prefix tested by uri.startswith and the width of the slice uri[7:]
IpfsScheme == "ipfs://"
SchemeLen == 7
\* the bound of the check len(cid) < 46
MinCidLen == 46
DefaultMimeType == "application/octet-stream"

\* ---------------------------------------------------------- Python values
\* A Python value is None or a str; the tag keeps the two apart.
None == [t |-> "NoneType"]
Str(s) == [t |-> "str", v |-> s]
IsStr(x) == x.t = "str"
\* f"{x}" : str() of a value inside an f-string
Fmt(x) == IF x = None THEN "None" ELSE x.v
\* s.startswith(p)
StartsWith(s, p) == Len(s) >= Len(p) /\ SubSeq(s, 1, Len(p)) = p
\* s[n:]
SliceFrom(s, n) == IF Len(s) <= n THEN "" ELSE SubSeq(s, n + 1, Len(s))
\* s[:n]
SliceTo(s, n) == IF Len(s) <= n THEN s ELSE SubSeq(s, 1, n)

\* ------------------------------------------------------------ Python dict
\* An insertion-ordered dict: a sequence of key/value pairs with unique keys.
DictKeys(d) == {d[j].key : j \in 1..Len(d)}
DictHas(d, k) == \E j \in 1..Len(d) : d[j].key = k
DictIndex(d, k) == CHOOSE j \in 1..Len(d) : d[j].key = k
\* a store that appends without looking for the key
DictSet_AlwaysAppend(d, k, v) == Append(d, [key |-> k, value |-> v])
\* d[k] = v : replace in place when the key is present, append otherwise
DictSet(d, k, v) ==
    IF DictHas(d, k)
    THEN [d EXCEPT ![DictIndex(d, k)] = [key |-> k, value |-> v]]
    ELSE Append(d, [key |-> k, value |-> v])
DictGetItem(d, k) == d[DictIndex(d, k)].value
\* m.get(k, default) on a dict held as a function over its keys
Get(m, k, default) == IF k \in DOMAIN m THEN m[k] ELSE default

\* ------------------------------------------------------------- the inputs
SeedCid == "QmYwAPJzv5CZsnA625s3Xf2nemtYgPpHdWEz79ojWnPbdG"
NewCid == "QmNewResource123456789012345678901234567890123456"
Cid45 == "QmTest123456789012345678901234567890123456789"
ShortCid == "short"
\* the CID of the address read by test_read_resource_success
TestCid == "QmTest123"

\* the registry built by IPFSServer.__init__
InitialKnownCids ==
    << [key |-> Str(SeedCid),
        value |-> [name |-> Str("IPFS Introduction"),
                   description |-> Str("An introduction to IPFS concepts"),
                   mime_type |-> Str("text/plain")]] >>

\* what the orchestrator can pass as the arguments of a tool call: no
\* arguments at all (None) or a dict holding any of the schema keys
NoArguments == [absent |-> TRUE]
AddArgumentInputs ==
    {NoArguments,
     [cid |-> Str(NewCid)],
     [name |-> Str("Other")],
     [cid |-> Str(NewCid), name |-> Str("Test Resource")],
     [cid |-> Str(ShortCid), name |-> Str("Test Resource")],
     [cid |-> Str(NewCid), name |-> Str("Other"),
      description |-> Str("A test resource")],
     [cid |-> Str(SeedCid), name |-> Str("Other"),
      description |-> Str("A test resource"), mime_type |-> Str("text/markdown")]}
FetchArgumentInputs ==
    {NoArguments,
     [x \in {} |-> Str("")],
     [cid |-> Str(SeedCid)],
     [cid |-> Str(ShortCid)]}
ToolNameInputs == {"add_ipfs_resource", "fetch_ipfs_content", "unknown_tool"}
UnknownToolArguments == {NoArguments, [cid |-> Str(NewCid), name |-> Str("Other")]}
UriInputs ==
    {"http://example.com", "http://" \o NewCid, "ipfs://", "ipfs://" \o ShortCid,
     "ipfs://" \o TestCid, "ipfs://" \o Cid45, "ipfs://" \o SeedCid}

\* what the gateway can answer to one GET: a response with a status whose
\* body decodes as text or not, or no response at all
Response(status, decodes, text, content) ==
    [kind |-> "response", status |-> status, decodes |-> decodes,
     text |-> text, content |-> content]
NoAnswer(kind) ==
    [kind |-> kind, status |-> 0, decodes |-> FALSE, text |-> "", content |-> <<>>]
GatewayOutcomes ==
    {Response(200, TRUE, "Test content from IPFS", <<>>),
     Response(200, FALSE, "", <<137, 80, 78, 71>>),
     Response(404, TRUE, "not found", <<>>),
     Response(500, TRUE, "gateway failure", <<>>),
     NoAnswer("timeout")}

\* ---------------------------------------------------------------- results
\* What a handler gives back to the protocol layer: a value it returned or
\* an exception it raised.
NoResult == [kind |-> "none", exc |-> "", msg |-> "", value |-> <<>>]
Returned(v) == [kind |-> "result", exc |-> "", msg |-> "", value |-> v]
Raised(exc, msg) == [kind |-> "error", exc |-> exc, msg |-> msg, value |-> <<>>]
\* [types.TextContent(type="text", text=t)]
TextContent(t) == << [type |-> "text", text |-> t] >>

\* ------------------------------------------------------------ httpx calls
\* response.raise_for_status(): raises HTTPStatusError outside 2xx
IsSuccess(outcome) == outcome.status >= 200 /\ outcome.status <= 299
\* str(e) of the exception the GET or raise_for_status raises
ExcStr(outcome, url) ==
    IF outcome.kind = "timeout" THEN "The read operation timed out"
    ELSE IF outcome.status = 404
         THEN "Client error '404 Not Found' for url '" \o url \o "'"
    ELSE "Server error '500 Internal Server Error' for url '" \o url \o "'"

\* base64.b64encode(bytes).decode('ascii')
B64Chars == "ABCDEFGHIJKLMNOPQRSTUVWXYZabcdefghijklmnopqrstuvwxyz0123456789+/"
B64Char(n) == SubSeq(B64Chars, n + 1, n + 1)
RECURSIVE b64encode(_)
b64encode(b) ==
    IF Len(b) = 0 THEN ""
    ELSE IF Len(b) = 1
         THEN B64Char(b[1] \div 4) \o B64Char((b[1] % 4) * 16) \o "=="
    ELSE IF Len(b) = 2
         THEN B64Char(b[1] \div 4) \o B64Char((b[1] % 4) * 16 + b[2] \div 16)
              \o B64Char((b[2] % 16) * 4) \o "="
    ELSE B64Char(b[1] \div 4) \o B64Char((b[1] % 4) * 16 + b[2] \div 16)
         \o B64Char((b[2] % 16) * 4 + b[3] \div 64) \o B64Char(b[3] % 64)
         \o b64encode(SubSeq(b, 4, Len(b)))

\* ---------------------------------------------------- handle_list_resources
\* types.Resource(uri, name, description, mimeType): name is a required str
\* field, description and mimeType are optional ones
ResourceAccepts(name, description, mimeType) == IsStr(name)
\* why building the descriptor of one entry raises, "" when it does not:
\* the default f"IPFS File {cid[:8]}..." is evaluated before .get is called
\* and subscripts the key
DescriptorError(entry) ==
    IF ~IsStr(entry.key) THEN "TypeError"
    ELSE IF ~ResourceAccepts(
                Get(entry.value, "name", Str("")),
                Get(entry.value, "description", Str("")),
                Get(entry.value, "mime_type", Str("")))
         THEN "ValidationError"
    ELSE ""
Descriptor(entry) ==
    LET cid == entry.key
        metadata == entry.value
    IN  [uri |-> IpfsScheme \o Fmt(cid),
         name |-> Get(metadata, "name",
                      Str("IPFS File " \o SliceTo(Fmt(cid), 8) \o "...")),
         description |-> Get(metadata, "description",
                             Str("Content from IPFS CID: " \o Fmt(cid))),
         mimeType |-> Get(metadata, "mime_type", Str(DefaultMimeType))]
handle_list_resources(d) ==
    IF \E j \in 1..Len(d) : DescriptorError(d[j]) # ""
    THEN LET first == CHOOSE j \in 1..Len(d) :
                         /\ DescriptorError(d[j]) # ""
                         /\ \A l \in 1..(j - 1) : DescriptorError(d[l]) = ""
         IN  Raised(DescriptorError(d[first]), "")
    ELSE Returned([j \in 1..Len(d) |-> Descriptor(d[j])])

\* ----------------------------------------------------- handle_read_resource
\* the checks with the length bound off by one
ReadValidationError_OffByOne(uri) ==
    IF ~StartsWith(uri, IpfsScheme) THEN "Invalid IPFS URI: " \o uri
    ELSE LET cid == SliceFrom(uri, SchemeLen)
         IN  IF cid = "" \/ Len(cid) < MinCidLen - 1
             THEN "Invalid IPFS CID: " \o cid
             ELSE ""
\* the two checks made before the GET; "" when the address passes both
ReadValidationError(uri) ==
    IF ~StartsWith(uri, IpfsScheme) THEN "Invalid IPFS URI: " \o uri
    ELSE LET cid == SliceFrom(uri, SchemeLen)
         IN  IF cid = "" \/ Len(cid) < MinCidLen
             THEN "Invalid IPFS CID: " \o cid
             ELSE ""
\* a handler that does not tell 404 from the other failure statuses
ReadOutcome_No404(cid, url, outcome) ==
        IF outcome.kind # "response"
        THEN Raised("ValueError",
                    "Failed to fetch IPFS content: " \o ExcStr(outcome, url))
        ELSE IF ~IsSuccess(outcome)
        THEN Raised("ValueError",
                    "Error fetching from IPFS: " \o ExcStr(outcome, url))
        ELSE Returned(outcome.text)
\* a handler that answers a failed transport with empty content
ReadOutcome_SwallowsTimeout(cid, url, outcome) ==
        IF outcome.kind # "response"
        THEN Returned("")
        ELSE IF ~IsSuccess(outcome)
        THEN IF outcome.status = 404
             THEN Raised("ValueError", "CID not found: " \o cid)
             ELSE Raised("ValueError",
                         "Error fetching from IPFS: " \o ExcStr(outcome, url))
        ELSE IF outcome.decodes
        THEN Returned(outcome.text)
        ELSE Returned("[Binary content - Base64 encoded]\n"
                      \o b64encode(outcome.content))
\* what the handler does with the gateway's answer to its GET
ReadOutcome(cid, url, outcome) ==
        IF outcome.kind # "response"
        THEN Raised("ValueError",
                    "Failed to fetch IPFS content: " \o ExcStr(outcome, url))
        ELSE IF ~IsSuccess(outcome)
        THEN IF outcome.status = 404
             THEN Raised("ValueError", "CID not found: " \o cid)
             ELSE Raised("ValueError",
                         "Error fetching from IPFS: " \o ExcStr(outcome, url))
        ELSE IF outcome.decodes
        THEN Returned(outcome.text)
        ELSE Returned("[Binary content - Base64 encoded]\n"
                      \o b64encode(outcome.content))

\* --------------------------------------------------------- handle_call_tool
\* the entry that add_ipfs_resource stores under the cid
AddMetadata(arguments) ==
    LET cid == Get(arguments, "cid", None)
    IN  [name |-> Get(arguments, "name", None),
         description |-> Get(arguments, "description",
                             Str("Content from IPFS CID: " \o Fmt(cid))),
         mime_type |-> Get(arguments, "mime_type", Str(DefaultMimeType))]
AddConfirmation(resource_name, cid) ==
    "Successfully added IPFS resource: " \o Fmt(resource_name)
    \o " (CID: " \o Fmt(cid) \o ")"
\* what fetch_ipfs_content returns for the gateway's answer to its GET
FetchOutcome(cid, url, outcome) ==
        IF outcome.kind # "response" \/ ~IsSuccess(outcome)
        THEN Returned(TextContent(
                 "Error fetching IPFS content: " \o ExcStr(outcome, url)))
        ELSE IF outcome.decodes
        THEN Returned(TextContent(outcome.text))
        ELSE Returned(TextContent(
                 "[Binary content from CID: " \o Fmt(cid)
                 \o "] - Use the resource URI ipfs://" \o Fmt(cid)
                 \o " to access"))
\* arguments.get on None
NoneHasNoGet == Raised("AttributeError", "'NoneType' object has no attribute 'get'")

\* ------------------------------------------------------------------ state
VARIABLES
    known_cids,       \* self.known_cids, the registry
    pc,               \* where each handler task stands
    request,          \* the request each task serves
    cid,              \* the local variable cid of each task
    result,           \* what each finished task gave back
    url,              \* the local variable url of each task
    response,         \* what the awaited GET of each task gave
    gets,             \* GETs issued through self.http_client
    notifications,    \* resource_list_changed notifications delivered
    calls,            \* requests received so far
    last_put,         \* history: the latest write to known_cids
    completed_adds,   \* history: arguments of the add calls that returned
    fetch_calls,      \* history: fetch calls and validated reads received
    in_flight         \* history: per task, the GETs of other tasks that were
                      \* unanswered when its ListResources was served
VARIABLES
    main_pc,          \* position of main(): running (inside await server.run()),
                      \* except_interrupt, except_fatal, finally, exited
    exit_path,        \* how server.run() ended, "none" while it runs
    http_client,      \* the httpx.AsyncClient handle: open or closed
    closes            \* number of aclose() calls made on the handle

vars == <<known_cids, pc, request, cid, url, response, result, gets, notifications,
          calls, last_put, completed_adds, fetch_calls, in_flight,
          main_pc, exit_path, http_client, closes>>

Tasks == 1..NumTasks
NoRequest == [op |-> "none", uri |-> "", name |-> "", arguments |-> NoArguments]
ListResourcesRequest ==
    [op |-> "list_resources", uri |-> "", name |-> "", arguments |-> NoArguments]
ReadResourceRequest(uri) ==
    [op |-> "read_resource", uri |-> uri, name |-> "", arguments |-> NoArguments]
ListToolsRequest ==
    [op |-> "list_tools", uri |-> "", name |-> "", arguments |-> NoArguments]
CallToolRequest(name, arguments) ==
    [op |-> "call_tool", uri |-> "", name |-> name, arguments |-> arguments]
NoResponse == NoAnswer("none")
NoPut == [written |-> FALSE, key |-> None, before |-> <<>>, arguments |-> NoArguments]

Init ==
    /\ known_cids = InitialKnownCids
    /\ pc = [i \in Tasks |-> "idle"]
    /\ request = [i \in Tasks |-> NoRequest]
    /\ cid = [i \in Tasks |-> None]
    /\ result = [i \in Tasks |-> NoResult]
    /\ url = [i \in Tasks |-> ""]
    /\ response = [i \in Tasks |-> NoResponse]
    /\ gets = 0
    /\ notifications = 0
    /\ calls = 0
    /\ last_put = NoPut
    /\ completed_adds = {}
    /\ fetch_calls = 0
    /\ in_flight = [i \in Tasks |-> 0]
    /\ main_pc = "running"
    /\ exit_path = "none"
    /\ http_client = "open"
    /\ closes = 0

\* the state of main() and of the client handle, which no handler changes
lifecycle == <<main_pc, exit_path, http_client, closes>>

\* the tasks suspended at the await of a GET (lines 98 and 210)
AwaitingGet == {j \in Tasks : pc[j] \in {"read_get", "fetch_get"}}

\* a server that takes no new request while a GET is unanswered
Receive_Blocking(i, r) ==
    /\ main_pc = "running"
    /\ pc[i] \in {"idle", "done"}
    /\ \A j \in Tasks : pc[j] \notin {"read_get", "fetch_get"}
    /\ calls < MaxCalls
    /\ calls' = calls + 1
    /\ request' = [request EXCEPT ![i] = r]
    /\ response' = [response EXCEPT ![i] = NoResponse]
    /\ in_flight' = [in_flight EXCEPT ![i] =
                         IF r = ListResourcesRequest
                         THEN Cardinality(AwaitingGet \ {i}) ELSE 0]
\* the orchestrator sends a request and a free task starts to serve it,
\* with fresh local variables
Receive(i, r) ==
    /\ main_pc = "running"
    /\ pc[i] \in {"idle", "done"}
    /\ calls < MaxCalls
    /\ calls' = calls + 1
    /\ request' = [request EXCEPT ![i] = r]
    /\ response' = [response EXCEPT ![i] = NoResponse]
    /\ in_flight' = [in_flight EXCEPT ![i] =
                         IF r = ListResourcesRequest
                         THEN Cardinality(AwaitingGet \ {i}) ELSE 0]

\* the handler of task i ends, returning or raising res
Finish(i, res) ==
    /\ pc' = [pc EXCEPT ![i] = "done"]
    /\ result' = [result EXCEPT ![i] = res]
    /\ UNCHANGED lifecycle

\* the handler of task i is suspended at the await named by at
Await(i, at) ==
    /\ pc' = [pc EXCEPT ![i] = at]
    /\ result' = [result EXCEPT ![i] = NoResult]
    /\ UNCHANGED lifecycle

\* ListResources: no await, the handler runs to its end in one step
ListResources(i) ==
    /\ Receive(i, ListResourcesRequest)
    /\ cid' = [cid EXCEPT ![i] = None]
    /\ url' = [url EXCEPT ![i] = ""]
    /\ Finish(i, handle_list_resources(known_cids))
    /\ UNCHANGED <<known_cids, gets, notifications, last_put, completed_adds,
                   fetch_calls>>

\* ReadResource up to the await of the GET
ReadResource(i, uri) ==
    /\ Receive(i, ReadResourceRequest(uri))
    /\ IF ReadValidationError(uri) # ""
       THEN /\ cid' = [cid EXCEPT ![i] = None]
            /\ url' = [url EXCEPT ![i] = ""]
            /\ Finish(i, Raised("ValueError", ReadValidationError(uri)))
            /\ UNCHANGED <<gets, fetch_calls>>
       ELSE /\ cid' = [cid EXCEPT ![i] = Str(SliceFrom(uri, SchemeLen))]
            /\ url' = [url EXCEPT ![i] = IPFS_GATEWAY \o SliceFrom(uri, SchemeLen)]
            /\ gets' = gets + 1
            /\ fetch_calls' = fetch_calls + 1
            /\ Await(i, "read_get")
    /\ UNCHANGED <<known_cids, notifications, last_put, completed_adds>>

\* ReadResource from the gateway's answer to the end of the handler
ReadResourceReply(i, outcome) ==
    /\ pc[i] = "read_get"
    /\ response' = [response EXCEPT ![i] = outcome]
    /\ Finish(i, ReadOutcome(cid[i].v, url[i], outcome))
    /\ UNCHANGED <<known_cids, request, cid, url, gets, notifications, calls,
                   last_put, completed_adds, fetch_calls, in_flight>>

\* ListTools: the two fixed tool descriptors
handle_list_tools ==
    << [name |-> "add_ipfs_resource", required |-> {"cid", "name"},
        properties |-> {"cid", "name", "description", "mime_type"}],
       [name |-> "fetch_ipfs_content", required |-> {"cid"},
        properties |-> {"cid"}] >>
ListTools(i) ==
    /\ Receive(i, ListToolsRequest)
    /\ cid' = [cid EXCEPT ![i] = None]
    /\ url' = [url EXCEPT ![i] = ""]
    /\ Finish(i, Returned(handle_list_tools))
    /\ UNCHANGED <<known_cids, gets, notifications, last_put, completed_adds,
                   fetch_calls>>

\* CallTool add_ipfs_resource up to the await of the notification
AddResource(i, arguments) ==
    /\ Receive(i, CallToolRequest("add_ipfs_resource", arguments))
    /\ url' = [url EXCEPT ![i] = ""]
    /\ IF arguments = NoArguments
       THEN /\ cid' = [cid EXCEPT ![i] = None]
            /\ Finish(i, NoneHasNoGet)
            /\ UNCHANGED <<known_cids, last_put>>
       ELSE /\ cid' = [cid EXCEPT ![i] = Get(arguments, "cid", None)]
            /\ known_cids' = DictSet(known_cids, Get(arguments, "cid", None),
                                     AddMetadata(arguments))
            /\ last_put' = [written |-> TRUE, key |-> Get(arguments, "cid", None),
                            before |-> known_cids, arguments |-> arguments]
            /\ Await(i, "add_notify")
    /\ UNCHANGED <<gets, notifications, completed_adds, fetch_calls>>

\* CallTool add_ipfs_resource from send_resource_list_changed to the end:
\* the notification is delivered and the confirmation returned, or the send
\* raises and the exception leaves the handler
AddResourceNotify(i, delivered) ==
    /\ pc[i] = "add_notify"
    /\ IF delivered
       THEN /\ notifications' = notifications + 1
            /\ Finish(i, Returned(TextContent(
                   AddConfirmation(Get(request[i].arguments, "name", None),
                                   cid[i]))))
            /\ completed_adds' = completed_adds \cup {request[i].arguments}
       ELSE /\ Finish(i, Raised("SendError", "notification not delivered"))
            /\ UNCHANGED <<notifications, completed_adds>>
    /\ UNCHANGED <<known_cids, request, cid, url, response, gets, calls,
                   last_put, fetch_calls, in_flight>>

\* a fetch that applies the length check of handle_read_resource to its cid
FetchContent_Validates(i, arguments) ==
    /\ Receive(i, CallToolRequest("fetch_ipfs_content", arguments))
    /\ fetch_calls' = fetch_calls + 1
    /\ cid' = [cid EXCEPT ![i] = None]
    /\ IF arguments = NoArguments
       THEN /\ url' = [url EXCEPT ![i] = ""]
            /\ Finish(i, NoneHasNoGet)
            /\ UNCHANGED gets
       ELSE IF ReadValidationError(IpfsScheme \o Fmt(Get(arguments, "cid", None))) # ""
       THEN /\ url' = [url EXCEPT ![i] = ""]
            /\ Finish(i, Returned(TextContent("Error fetching IPFS content: "
                   \o ReadValidationError(
                          IpfsScheme \o Fmt(Get(arguments, "cid", None))))))
            /\ UNCHANGED gets
       ELSE /\ url' = [url EXCEPT ![i] =
                           IPFS_GATEWAY \o Fmt(Get(arguments, "cid", None))]
            /\ gets' = gets + 1
            /\ Await(i, "fetch_get")
    /\ UNCHANGED <<known_cids, notifications, last_put, completed_adds>>
\* CallTool fetch_ipfs_content up to the await of the GET
FetchContent(i, arguments) ==
    /\ Receive(i, CallToolRequest("fetch_ipfs_content", arguments))
    /\ fetch_calls' = fetch_calls + 1
    /\ IF arguments = NoArguments
       THEN /\ cid' = [cid EXCEPT ![i] = None]
            /\ url' = [url EXCEPT ![i] = ""]
            /\ Finish(i, NoneHasNoGet)
            /\ UNCHANGED gets
       ELSE /\ cid' = [cid EXCEPT ![i] = Get(arguments, "cid", None)]
            /\ url' = [url EXCEPT ![i] =
                           IPFS_GATEWAY \o Fmt(Get(arguments, "cid", None))]
            /\ gets' = gets + 1
            /\ Await(i, "fetch_get")
    /\ UNCHANGED <<known_cids, notifications, last_put, completed_adds>>

\* a fetch that registers the CID it fetched
FetchContentReply_Registers(i, outcome) ==
    /\ pc[i] = "fetch_get"
    /\ response' = [response EXCEPT ![i] = outcome]
    /\ Finish(i, FetchOutcome(cid[i], url[i], outcome))
    /\ known_cids' = DictSet(known_cids, cid[i],
                             [name |-> Str("Fetched"), description |-> Str(""),
                              mime_type |-> Str(DefaultMimeType)])
    /\ UNCHANGED <<request, cid, url, gets, notifications, calls,
                   last_put, completed_adds, fetch_calls, in_flight>>
\* a fetch that serves only the CIDs of the registry
FetchContentReply_RegisteredOnly(i, outcome) ==
    /\ pc[i] = "fetch_get"
    /\ response' = [response EXCEPT ![i] = outcome]
    /\ Finish(i, IF DictHas(known_cids, cid[i])
                 THEN FetchOutcome(cid[i], url[i], outcome)
                 ELSE Returned(TextContent("Error fetching IPFS content: "
                                           \o "unknown CID")))
    /\ UNCHANGED <<known_cids, request, cid, url, gets, notifications, calls,
                   last_put, completed_adds, fetch_calls, in_flight>>
\* CallTool fetch_ipfs_content from the gateway's answer to the end
FetchContentReply(i, outcome) ==
    /\ pc[i] = "fetch_get"
    /\ response' = [response EXCEPT ![i] = outcome]
    /\ Finish(i, FetchOutcome(cid[i], url[i], outcome))
    /\ UNCHANGED <<known_cids, request, cid, url, gets, notifications, calls,
                   last_put, completed_adds, fetch_calls, in_flight>>

\* an unknown tool name that falls through to the notification
UnknownTool_Notifies(i, name, arguments) ==
    /\ name \notin {"add_ipfs_resource", "fetch_ipfs_content"}
    /\ Receive(i, CallToolRequest(name, arguments))
    /\ cid' = [cid EXCEPT ![i] = None]
    /\ url' = [url EXCEPT ![i] = ""]
    /\ Finish(i, Raised("ValueError", "Unknown tool: " \o name))
    /\ notifications' = notifications + 1
    /\ UNCHANGED <<known_cids, gets, last_put, completed_adds, fetch_calls>>
\* CallTool with any other tool name
UnknownTool(i, name, arguments) ==
    /\ name \notin {"add_ipfs_resource", "fetch_ipfs_content"}
    /\ Receive(i, CallToolRequest(name, arguments))
    /\ cid' = [cid EXCEPT ![i] = None]
    /\ url' = [url EXCEPT ![i] = ""]
    /\ Finish(i, Raised("ValueError", "Unknown tool: " \o name))
    /\ UNCHANGED <<known_cids, gets, notifications, last_put, completed_adds,
                   fetch_calls>>

\* ----------------------------------------------------------------- main
\* how await server.run() can end in main (line 272): it returns, or raises
\* KeyboardInterrupt, an Exception, or another BaseException (CancelledError)
RunOutcomes == {"return", "KeyboardInterrupt", "Exception", "BaseException"}
\* what main shares with the handlers once run() has ended
main_frame == <<known_cids, gets, notifications, calls, last_put, completed_adds,
                fetch_calls>>

\* await server.run() ends: the handler tasks it ran are gone with it, and
\* control passes to the matching except clause or straight to finally
Run(how) ==
    /\ main_pc = "running"
    /\ exit_path' = how
    /\ main_pc' = CASE how = "KeyboardInterrupt" -> "except_interrupt"
                     [] how = "Exception" -> "except_fatal"
                     [] OTHER -> "finally"
    /\ pc' = [i \in Tasks |-> "idle"]
    /\ request' = [i \in Tasks |-> NoRequest]
    /\ cid' = [i \in Tasks |-> None]
    /\ result' = [i \in Tasks |-> NoResult]
    /\ url' = [i \in Tasks |-> ""]
    /\ response' = [i \in Tasks |-> NoResponse]
    /\ in_flight' = [i \in Tasks |-> 0]
    /\ UNCHANGED <<main_frame, http_client, closes>>

\* except KeyboardInterrupt: logs, then falls through to finally
ExceptKeyboardInterrupt ==
    /\ main_pc = "except_interrupt"
    /\ main_pc' = "finally"
    /\ UNCHANGED <<main_frame, pc, request, cid, result, url, response, in_flight,
                   exit_path, http_client, closes>>

\* except Exception: logs and calls sys.exit(1), whose SystemExit leaves the
\* try statement through finally
ExceptException_SkipsFinally ==
    /\ main_pc = "except_fatal"
    /\ main_pc' = "exited"
    /\ UNCHANGED <<main_frame, pc, request, cid, result, url, response, in_flight,
                   exit_path, http_client, closes>>
ExceptException ==
    /\ main_pc = "except_fatal"
    /\ main_pc' = "finally"
    /\ UNCHANGED <<main_frame, pc, request, cid, result, url, response, in_flight,
                   exit_path, http_client, closes>>

\* finally: await server.cleanup(), which closes the client; main is left
cleanup ==
    /\ main_pc = "finally"
    /\ http_client' = "closed"
    /\ closes' = closes + 1
    /\ main_pc' = "exited"
    /\ UNCHANGED <<main_frame, pc, request, cid, result, url, response, in_flight,
                   exit_path>>

Next ==
    \/ \E i \in Tasks : ListResources(i)
    \/ \E i \in Tasks, uri \in UriInputs : ReadResource(i, uri)
    \/ \E i \in Tasks, outcome \in GatewayOutcomes : ReadResourceReply(i, outcome)
    \/ \E i \in Tasks : ListTools(i)
    \/ \E i \in Tasks, arguments \in AddArgumentInputs : AddResource(i, arguments)
    \/ \E i \in Tasks, delivered \in BOOLEAN : AddResourceNotify(i, delivered)
    \/ \E i \in Tasks, arguments \in FetchArgumentInputs :
          FetchContent(i, arguments)
    \/ \E i \in Tasks, outcome \in GatewayOutcomes : FetchContentReply(i, outcome)
    \/ \E i \in Tasks, name \in ToolNameInputs, arguments \in UnknownToolArguments :
          UnknownTool(i, name, arguments)
    \/ \E how \in RunOutcomes : Run(how)
    \/ ExceptKeyboardInterrupt
    \/ ExceptException
    \/ cleanup

Spec == Init /\ [][Next]_vars

\* ------------------------------------------------------------ properties
\* s contains sub
Contains(s, sub) ==
    \E k \in 1..(Len(s) - Len(sub) + 1) : SubSeq(s, k, k + Len(sub) - 1) = sub
IsAdd(i) == request[i].op = "call_tool" /\ request[i].name = "add_ipfs_resource"
IsFetch(i) == request[i].op = "call_tool" /\ request[i].name = "fetch_ipfs_content"
IsRead(i) == request[i].op = "read_resource"
\* the arguments carry both required keys of add_ipfs_resource
HasCidAndName(arguments) ==
    arguments # NoArguments /\ {"cid", "name"} \subseteq DOMAIN arguments
\* the CIDs the registry was built with and those of the add calls that returned
PreSeededCids == DictKeys(InitialKnownCids)
AddedCids == {Get(a, "cid", None) : a \in completed_adds}
\* the descriptors of a listing whose address is ipfs://c
DescriptorsOf(listing, c) ==
    {j \in 1..Len(listing.value) : listing.value[j].uri = "ipfs://" \o Fmt(c)}

\* C1: in every reachable state ListResources returns, for every CID that was
\* pre-seeded or passed to an add_ipfs_resource call that returned, exactly
\* one descriptor with the address ipfs://<cid>, whatever the interleaving.
C1_ExactlyOneDescriptor ==
    \A c \in PreSeededCids \cup AddedCids :
        LET listing == handle_list_resources(known_cids)
        IN  /\ listing.kind = "result"
            /\ Cardinality(DescriptorsOf(listing, c)) = 1

\* C2: an add_ipfs_resource call for a CID that is already a key leaves the
\* number of entries as it was, leaves exactly one entry under the CID, and
\* that entry carries the name, description and content type of this call.
C2_LastWriteWins ==
    (last_put.written /\ DictHas(last_put.before, last_put.key)) =>
        LET a == last_put.arguments
            here == {j \in 1..Len(known_cids) : known_cids[j].key = last_put.key}
        IN  /\ Len(known_cids) = Len(last_put.before)
            /\ Cardinality(here) = 1
            /\ \A j \in here :
                  /\ known_cids[j].value.name = Get(a, "name", None)
                  /\ "description" \in DOMAIN a =>
                        known_cids[j].value.description = a.description
                  /\ "mime_type" \in DOMAIN a =>
                        known_cids[j].value.mime_type = a.mime_type
\* the second of two add calls for NewCid has written, with other metadata
C2_Witness ==
    /\ last_put.written
    /\ last_put.key = Str(NewCid)
    /\ DictHas(last_put.before, Str(NewCid))
    /\ DictGetItem(last_put.before, Str(NewCid)).name = Str("Test Resource")
    /\ DictGetItem(known_cids, Str(NewCid)).name = Str("Other")
    /\ Len(known_cids) = 2

\* C3: an add_ipfs_resource call whose arguments lack cid or name ends in an
\* error and never returns the confirmation message.
C3_MissingArgumentFails ==
    \A i \in Tasks :
        (pc[i] = "done" /\ IsAdd(i) /\ ~HasCidAndName(request[i].arguments)) =>
            result[i].kind = "error"

\* C4: every key of the registry is a non-empty string of at least 46
\* characters.
C4_KeysWellFormed ==
    \A j \in 1..Len(known_cids) :
        /\ IsStr(known_cids[j].key)
        /\ known_cids[j].key.v # ""
        /\ Len(known_cids[j].key.v) >= 46

\* C5: a fetch_ipfs_content call never ends in an error: for every arguments
\* value and every gateway outcome it returns one text item, which describes
\* the error when the fetch failed.
C5_FetchNeverFails ==
    \A i \in Tasks :
        (pc[i] = "done" /\ IsFetch(i)) =>
            /\ result[i].kind = "result"
            /\ Len(result[i].value) = 1
            /\ result[i].value[1].type = "text"
            /\ (response[i].kind # "response"
                \/ response[i].status < 200 \/ response[i].status > 299) =>
                   Contains(result[i].value[1].text, "Error")

\* C6: an add_ipfs_resource call with cid and name present ends with the
\* entry in the registry and the confirmation returned, also when the
\* delivery of the notification failed.
C6_NotificationFailureNotFatal ==
    \A i \in Tasks :
        (pc[i] = "done" /\ IsAdd(i) /\ HasCidAndName(request[i].arguments)) =>
            /\ DictHas(known_cids, request[i].arguments.cid)
            /\ result[i].kind = "result"
            /\ Contains(result[i].value[1].text, "Successfully added")

\* C7: in every reachable state ListResources returns a descriptor list and
\* not an error.
C7_ListResourcesNeverFails ==
    handle_list_resources(known_cids).kind = "result"

\* C8: a ReadResource whose address does not begin with ipfs:// ends with
\* "Invalid IPFS URI"; one whose remainder is empty or shorter than 46
\* characters ends with "Invalid IPFS CID"; neither issues a GET; a read
\* issues a GET only when its address passes both checks.
C8_BadScheme(uri) == Len(uri) < 7 \/ SubSeq(uri, 1, 7) # "ipfs://"
C8_BadLength(uri) == ~C8_BadScheme(uri) /\ Len(uri) - 7 < 46
C8_Refused ==
    \A i \in Tasks :
        IsRead(i) =>
            LET uri == request[i].uri
            IN  /\ C8_BadScheme(uri) =>
                      /\ pc[i] = "done" /\ result[i].kind = "error"
                      /\ StartsWith(result[i].msg, "Invalid IPFS URI")
                      /\ url[i] = ""
                /\ C8_BadLength(uri) =>
                      /\ pc[i] = "done" /\ result[i].kind = "error"
                      /\ StartsWith(result[i].msg, "Invalid IPFS CID")
                      /\ url[i] = ""
C8_IssuedOnlyWhenValid ==
    gets' # gets =>
        /\ gets' = gets + 1
        /\ \E i \in Tasks :
              /\ pc[i] \in {"idle", "done"}
              /\ pc'[i] \in {"read_get", "fetch_get"}
              /\ request'[i].op = "read_resource" =>
                    /\ ~C8_BadScheme(request'[i].uri)
                    /\ ~C8_BadLength(request'[i].uri)
                    /\ url'[i] = IPFS_GATEWAY \o SubSeq(request'[i].uri, 8,
                                                       Len(request'[i].uri))
C9_NotFound ==
    \A i \in Tasks :
        (pc[i] = "done" /\ response[i].kind = "response"
         /\ response[i].status = 404) =>
            /\ IsRead(i) =>
                  /\ result[i].kind = "error"
                  /\ StartsWith(result[i].msg, "CID not found")
                  /\ Contains(result[i].msg, SubSeq(request[i].uri, 8,
                                                    Len(request[i].uri)))
            /\ IsFetch(i) =>
                  /\ result[i].kind = "result"
                  /\ Len(result[i].value) = 1
                  /\ StartsWith(result[i].value[1].text,
                                "Error fetching IPFS content")
\* a read and a fetch of the same CID have both been answered 404
C9_Witness ==
    \E i, j \in Tasks :
        /\ pc[i] = "done" /\ IsRead(i) /\ response[i].status = 404
        /\ pc[j] = "done" /\ IsFetch(j) /\ response[j].status = 404
        /\ request[i].uri = "ipfs://" \o SeedCid
        /\ Get(request[j].arguments, "cid", None) = Str(SeedCid)
        /\ result[i].kind = "error" /\ result[j].kind = "result"

\* C10: an add_ipfs_resource call with cid and name present that returns has
\* its entry in the registry and a confirmation naming the name and the CID;
\* a notification is emitted only by the step that ends such a call, one per
\* call, with the entry already stored; and ListResources then lists the entry.
C10_Returned ==
    \A i \in Tasks :
        (pc[i] = "done" /\ IsAdd(i) /\ HasCidAndName(request[i].arguments)
         /\ result[i].kind = "result") =>
            /\ DictHas(known_cids, request[i].arguments.cid)
            /\ Len(result[i].value) = 1
            /\ Contains(result[i].value[1].text, request[i].arguments.name.v)
            /\ Contains(result[i].value[1].text, request[i].arguments.cid.v)
C10_Listed ==
    \A a \in completed_adds :
        HasCidAndName(a) =>
            LET listing == handle_list_resources(known_cids)
            IN  /\ listing.kind = "result"
                /\ DescriptorsOf(listing, a.cid) # {}
C10_OneNotification ==
    /\ notifications' # notifications =>
          /\ notifications' = notifications + 1
          /\ \E i \in Tasks :
                /\ pc[i] = "add_notify" /\ pc'[i] = "done"
                /\ DictHas(known_cids, cid[i])
                /\ result'[i].kind = "result"
    /\ \A i \in Tasks :
          (pc[i] # "done" /\ pc'[i] = "done" /\ IsAdd(i)
           /\ result'[i].kind = "result") =>
              notifications' = notifications + 1
\* C10: the three parts together, in every state and at every step.
C10_AddNotifiesAndLists ==
    /\ [](C10_Returned /\ C10_Listed)
    /\ [][C10_OneNotification]_vars

\* C11: a ReadResource on the ipfs:// address of a CID of 46 or more
\* characters, or on the address ipfs://QmTest123 of the repository test,
\* for which the gateway does not fail returns exactly the text body of the
\* gateway's 2xx answer.
C11_Addresses(uri) ==
    /\ Len(uri) >= 7 /\ SubSeq(uri, 1, 7) = "ipfs://"
    /\ (Len(uri) - 7 >= 46 \/ uri = "ipfs://QmTest123")
C11_GatewayFailed(i) ==
    \/ response[i].kind = "timeout"
    \/ response[i].kind = "response"
       /\ (response[i].status < 200 \/ response[i].status > 299
           \/ ~response[i].decodes)
C11_ReadReturnsBody ==
    \A i \in Tasks :
        (pc[i] = "done" /\ IsRead(i) /\ C11_Addresses(request[i].uri)
         /\ ~C11_GatewayFailed(i)) =>
            /\ result[i].kind = "result"
            /\ result[i].value = response[i].text

\* C12: a CallTool with a tool name other than add_ipfs_resource and
\* fetch_ipfs_content ends in the error "Unknown tool: <name>" for any
\* arguments, and it is never such a call that writes the registry, issues
\* a GET or emits a notification.
C12_IsUnknown(r) ==
    r.op = "call_tool" /\ r.name \notin {"add_ipfs_resource", "fetch_ipfs_content"}
C12_Fails ==
    \A i \in Tasks :
        C12_IsUnknown(request[i]) =>
            /\ pc[i] = "done"
            /\ result[i].kind = "error"
            /\ result[i].msg = "Unknown tool: " \o request[i].name
            /\ url[i] = ""
C12_NoEffect ==
    (known_cids' # known_cids \/ gets' # gets \/ notifications' # notifications) =>
        \E i \in Tasks : pc'[i] # pc[i] /\ ~C12_IsUnknown(request'[i])
C12_UnknownToolFails ==
    /\ []C12_Fails
    /\ [][C12_NoEffect]_vars
\* calls of unknown_tool with and without arguments have both been refused
\* and nothing else has happened
C12_Witness ==
    /\ \E i, j \in Tasks :
          /\ pc[i] = "done" /\ request[i].name = "unknown_tool"
          /\ request[i].arguments = NoArguments
          /\ pc[j] = "done" /\ request[j].name = "unknown_tool"
          /\ request[j].arguments # NoArguments
          /\ result[j].msg = "Unknown tool: unknown_tool"
    /\ known_cids = InitialKnownCids /\ gets = 0 /\ notifications = 0

\* C13: a ReadResource that passed validation and has ended has exactly one
\* gateway outcome, and its result is the one that outcome determines: content
\* for 2xx, "CID not found" for 404, "Error fetching from IPFS" for another
\* status, "Failed to fetch IPFS content" when there was no response.
C13_ErrorKind(res) ==
    IF res.kind # "error" THEN "content"
    ELSE IF StartsWith(res.msg, "CID not found") THEN "NotFound"
    ELSE IF StartsWith(res.msg, "Error fetching from IPFS") THEN "GatewayError"
    ELSE IF StartsWith(res.msg, "Failed to fetch IPFS content") THEN "TransportError"
    ELSE "other"
C13_Expected(outcome) ==
    IF outcome.kind # "response" THEN "TransportError"
    ELSE IF outcome.status >= 200 /\ outcome.status <= 299 THEN "content"
    ELSE IF outcome.status = 404 THEN "NotFound"
    ELSE "GatewayError"
C13_OutcomeDeterminesResult ==
    \A i \in Tasks :
        (pc[i] = "done" /\ IsRead(i) /\ url[i] # "") =>
            /\ response[i].kind # "none"
            /\ result[i].kind \in {"result", "error"}
            /\ C13_ErrorKind(result[i]) = C13_Expected(response[i])
\* one read has ended on a 500 answer and another on a timeout
C13_Witness ==
    \E i, j \in Tasks :
        /\ pc[i] = "done" /\ IsRead(i) /\ response[i].status = 500
        /\ C13_ErrorKind(result[i]) = "GatewayError"
        /\ pc[j] = "done" /\ IsRead(j) /\ response[j].kind = "timeout"
        /\ C13_ErrorKind(result[j]) = "TransportError"

\* C14: the GETs issued are exactly one per fetch_ipfs_content call and per
\* ReadResource call that passed validation, and the step that ends such a
\* call, with success or failure, issues no further GET.
C14_OnePerCall == gets = fetch_calls
C14_NoRetry ==
    \A i \in Tasks :
        (pc[i] \in {"read_get", "fetch_get"} /\ pc'[i] = "done") => gets' = gets
C14_OneGetPerCall ==
    /\ []C14_OnePerCall
    /\ [][C14_NoRetry]_vars

\* C15: while a GET of one task is unanswered, a free task can serve
\* ListResources, ListTools and add_ipfs_resource to completion: each of the
\* three can start, the two listings end in that same step, an add suspended
\* at its notification can end, and none of it moves the waiting task.
C15_Untouched(i) ==
    /\ pc'[i] = pc[i]
    /\ response'[i] = response[i]
    /\ url'[i] = url[i]
C15_CanServe(i, j) ==
    /\ ENABLED (ListResources(j) /\ pc'[j] = "done" /\ C15_Untouched(i))
    /\ ENABLED (ListTools(j) /\ pc'[j] = "done" /\ C15_Untouched(i))
    /\ \A arguments \in AddArgumentInputs :
           ENABLED (AddResource(j, arguments) /\ C15_Untouched(i))
C15_CanEndAdd(i, j) ==
    \A delivered \in BOOLEAN :
        ENABLED (AddResourceNotify(j, delivered) /\ pc'[j] = "done" /\ C15_Untouched(i))
C15_OthersServable ==
    \A i \in AwaitingGet : \A j \in Tasks \ {i} :
        /\ (pc[j] \in {"idle", "done"} /\ calls < MaxCalls) => C15_CanServe(i, j)
        /\ pc[j] = "add_notify" => C15_CanEndAdd(i, j)
C15_Witness ==
    \E i \in AwaitingGet : \E j \in Tasks \ {i} :
        /\ pc[j] = "done"
        /\ request[j] = ListResourcesRequest
        /\ result[j].kind = "result"
        /\ in_flight[j] >= 1

\* C16: the client handle is open and has never been closed while main is
\* running or handling the end of run; once main is left, on each of its exit
\* paths, the handle is closed and has been closed exactly once; a closed
\* handle is never reopened and every GET is issued on an open handle.
C16_OpenUntilShutdown ==
    main_pc # "exited" => (http_client = "open" /\ closes = 0)
C16_ClosedOnceAfter ==
    main_pc = "exited" => (http_client = "closed" /\ closes = 1)
C16_Steps ==
    /\ http_client = "closed" => http_client' = "closed"
    /\ gets' # gets => (http_client = "open" /\ main_pc = "running")
    /\ closes' # closes => (main_pc = "finally" /\ closes' = closes + 1)
C16_ClientClosedExactlyOnce ==
    /\ [](C16_OpenUntilShutdown /\ C16_ClosedOnceAfter)
    /\ [][C16_Steps]_vars
C16_Witness ==
    /\ main_pc = "exited"
    /\ exit_path = "Exception"
    /\ gets = 2
    /\ closes = 1

\* C17: at every step each key of the registry stays a key, at its place;
\* the value under a key changes only in the step in which an
\* add_ipfs_resource call for that same key performs its write; and the
\* registry changes in no step of ListResources, ReadResource, ListTools,
\* fetch_ipfs_content, an unknown tool, or of main.
C17_Writes(i, k) ==
    /\ pc[i] \in {"idle", "done"}
    /\ pc'[i] = "add_notify"
    /\ request'[i].op = "call_tool"
    /\ request'[i].name = "add_ipfs_resource"
    /\ request'[i].arguments # NoArguments
    /\ Get(request'[i].arguments, "cid", None) = k
C17_KeysStay ==
    /\ Len(known_cids') >= Len(known_cids)
    /\ \A j \in 1..Len(known_cids) : known_cids'[j].key = known_cids[j].key
C17_OnlyAddChanges ==
    /\ \A j \in 1..Len(known_cids) :
           known_cids'[j].value # known_cids[j].value =>
               \E i \in Tasks : C17_Writes(i, known_cids[j].key)
    /\ Len(known_cids') > Len(known_cids) =>
           /\ Len(known_cids') = Len(known_cids) + 1
           /\ \E i \in Tasks : C17_Writes(i, known_cids'[Len(known_cids')].key)
C17_RegistryOnlyGrows == [][C17_KeysStay /\ C17_OnlyAddChanges]_vars
C17_Witness ==
    /\ Len(known_cids) = 2
    /\ known_cids[1].key = Str(SeedCid)
    /\ known_cids[1].value.name = Str("Other")
    /\ known_cids[2].key = Str(NewCid)
    /\ main_pc = "exited"

\* C18: for a cid of fewer than 46 characters, fetch_ipfs_content issues one
\* GET to the gateway base URL followed by the cid and returns one text item,
\* the body itself when the gateway answers 2xx with text; ReadResource on
\* ipfs://<that cid> ends with "Invalid IPFS CID" and issues no GET.
C18_IsShort(c) == IsStr(c) /\ Len(c.v) > 0 /\ Len(c.v) < 46
C18_FetchShort(i) ==
    /\ IsFetch(i)
    /\ request[i].arguments # NoArguments
    /\ C18_IsShort(Get(request[i].arguments, "cid", None))
C18_ReadShort(i) ==
    /\ IsRead(i)
    /\ Len(request[i].uri) > 7
    /\ SubSeq(request[i].uri, 1, 7) = "ipfs://"
    /\ Len(request[i].uri) - 7 < 46
C18_FetchGoesOut ==
    \A i \in Tasks :
        C18_FetchShort(i) =>
            /\ pc[i] \in {"fetch_get", "done"}
            /\ url[i] = IPFS_GATEWAY \o request[i].arguments.cid.v
            /\ pc[i] = "done" =>
                  /\ response[i].kind # "none"
                  /\ result[i].kind = "result"
                  /\ Len(result[i].value) = 1
                  /\ (response[i].kind = "response" /\ response[i].status = 200
                      /\ response[i].decodes) =>
                         result[i].value[1].text = response[i].text
C18_ReadStaysIn ==
    \A i \in Tasks :
        C18_ReadShort(i) =>
            /\ pc[i] = "done"
            /\ result[i].kind = "error"
            /\ StartsWith(result[i].msg, "Invalid IPFS CID")
            /\ url[i] = ""
            /\ response[i].kind = "none"
C18_GetPerPath ==
    \A i \in Tasks :
        (pc[i] \in {"idle", "done"} /\ pc'[i] = "fetch_get"
         /\ request'[i].arguments # NoArguments
         /\ C18_IsShort(Get(request'[i].arguments, "cid", None))) =>
            /\ gets' = gets + 1
            /\ url'[i] = IPFS_GATEWAY \o request'[i].arguments.cid.v
C19_FailedAdd(i) ==
    pc[i] = "done" /\ IsAdd(i) /\ result[i].kind = "error"
C19_AllOrNothing ==
    \A i \in Tasks :
        C19_FailedAdd(i) =>
            /\ (request[i].arguments = NoArguments /\ ~last_put.written) =>
                   known_cids = InitialKnownCids
            /\ (last_put.written /\ last_put.arguments = request[i].arguments
                /\ ~DictHas(last_put.before, last_put.key)) =>
                   ~DictHas(known_cids, last_put.key)

\* C20: the result of a finished ReadResource or fetch_ipfs_content is the
\* value determined by its address or CID and the gateway's answer alone,
\* whatever the registry holds; so two finished calls with the same request
\* and the same answer have the same result, a CID that is no key is served,
\* and writes to the registry change no result.
C20_Answered(i) ==
    pc[i] = "done" /\ (IsRead(i) \/ IsFetch(i)) /\ response[i].kind # "none"
C20_FromRequestAndAnswer(i) ==
    IF IsRead(i)
    THEN LET c == SubSeq(request[i].uri, 8, Len(request[i].uri))
         IN  result[i] = ReadOutcome(c, IPFS_GATEWAY \o c, response[i])
    ELSE LET c == Get(request[i].arguments, "cid", None)
         IN  result[i] = FetchOutcome(c, IPFS_GATEWAY \o Fmt(c), response[i])
C20_SameInSameOut ==
    \A i, j \in Tasks :
        (C20_Answered(i) /\ C20_Answered(j) /\ request[i] = request[j]
         /\ response[i] = response[j]) => result[i] = result[j]
====
